---- MODULE Spec2Model ----
(***************************************************************************)
(* Model of src/src/data_cleaning.py: a one-shot batch transform that      *)
(* loads a CSV table, normalises its header, detects and renames the four  *)
(* canonical columns, trims text, repairs numeric cells, drops rows with   *)
(* negative price or quantity and writes the table back as CSV.            *)
(*                                                                         *)
(* Representation.  A string (a header, a cell text) is a sequence of      *)
(* atoms.  In headers every atom is one character.  In cell texts an atom  *)
(* is either one whitespace character or a whitespace-free word ("NA",     *)
(* "Widget", a numeral), which is all the regular expressions and the      *)
(* parsers of the program can tell apart.  Numeric cell values are         *)
(* integers; the numerals of the input tables are even so that the         *)
(* midpoint (a + b) / 2 taken by the median is exact whenever it is used.  *)
(***************************************************************************)
EXTENDS Integers, Sequences, FiniteSets, TLC

VARIABLES pc, fs, df, found, console, failure, stages, run, hist

vars == <<pc, fs, df, found, console, failure, stages, run, hist>>

(***************************************************************************)
(* Bounds of the explored inputs.                                          *)
(***************************************************************************)
MaxCols == 2
MaxRows == 2
MaxPriceRows == 4
MaxRuns == 2

(***************************************************************************)
(* Generic helpers on sequences.                                           *)
(***************************************************************************)
Range(s) == {s[i] : i \in DOMAIN s}

RECURSIVE FilterIdx(_, _, _)
\* the subsequence of s at the positions i >= from with keep[i]
FilterIdx(s, keep, from) ==
    IF from > Len(s) THEN <<>>
    ELSE IF keep[from] THEN <<s[from]>> \o FilterIdx(s, keep, from + 1)
    ELSE FilterIdx(s, keep, from + 1)

RECURSIVE SeqsUpTo(_, _)
\* every sequence over S of length at most n
SeqsUpTo(S, n) ==
    IF n = 0 THEN {<<>>}
    ELSE LET shorter == SeqsUpTo(S, n - 1)
         IN  shorter \cup {Append(s, x) : s \in {t \in shorter : Len(t) = n - 1}, x \in S}

(***************************************************************************)
(* Characters.                                                             *)
(***************************************************************************)
Whitespace == {" ", "\t"}

UpperChars == <<"A","B","C","D","E","F","G","H","I","J","K","L","M",
                "N","O","P","Q","R","S","T","U","V","W","X","Y","Z">>

LowerChars == <<"a","b","c","d","e","f","g","h","i","j","k","l","m",
                "n","o","p","q","r","s","t","u","v","w","x","y","z">>

Digits == <<"0","1","2","3","4","5","6","7","8","9">>

\* the characters the second regular expression of standardize_column_names keeps
NameChars == Range(UpperChars) \cup Range(LowerChars) \cup Range(Digits) \cup {"_"}

\* str.lower() on one character
LowerChar(c) ==
    IF c \in Range(UpperChars)
    THEN LowerChars[CHOOSE i \in DOMAIN UpperChars : UpperChars[i] = c]
    ELSE c

\* str.lower()
Lower(s) == [i \in DOMAIN s |-> LowerChar(s[i])]

RECURSIVE LStrip(_)
LStrip(s) ==
    IF s # <<>> /\ Head(s) \in Whitespace THEN LStrip(Tail(s)) ELSE s

RECURSIVE RStrip(_)
RStrip(s) ==
    IF s # <<>> /\ s[Len(s)] \in Whitespace THEN RStrip(SubSeq(s, 1, Len(s) - 1)) ELSE s

\* str.strip()
Strip(s) == RStrip(LStrip(s))

RECURSIVE SubWhitespaceRuns(_, _)
\* re.sub(r"\s+", rep, s): every maximal run of whitespace becomes rep
SubWhitespaceRuns(s, rep) ==
    IF s = <<>> THEN <<>>
    ELSE IF Head(s) \in Whitespace
         THEN <<rep>> \o SubWhitespaceRuns(LStrip(s), rep)
         ELSE <<Head(s)>> \o SubWhitespaceRuns(Tail(s), rep)

\* a faulty variant of the removal below, whose character class also keeps "$"
RemoveNonNameCharsKeepDollar(s) == SelectSeq(s, LAMBDA c : c \in NameChars \cup {"$"})

\* re.sub(r"[^0-9a-zA-Z_]+", "", s)
RemoveNonNameChars(s) == SelectSeq(s, LAMBDA c : c \in NameChars)

\* the body of the loop of standardize_column_names, for one column name
NormalizeName(col) ==
    RemoveNonNameChars(SubWhitespaceRuns(Lower(Strip(col)), "_"))

\* standardize_column_names / clean_column_names on the list of column names
StandardizeColumnNames(cols) == [j \in DOMAIN cols |-> NormalizeName(cols[j])]

(***************************************************************************)
(* The alias table of clean_sales_data and find_column.                    *)
(***************************************************************************)
Fields == <<"product", "category", "price", "quantity">>

FieldSet == Range(Fields)

N_product == <<"p","r","o","d","u","c","t">>
N_product_name == <<"p","r","o","d","u","c","t","_","n","a","m","e">>
N_name == <<"n","a","m","e">>
N_category == <<"c","a","t","e","g","o","r","y">>
N_cat == <<"c","a","t">>
N_product_category == <<"p","r","o","d","u","c","t","_","c","a","t","e","g","o","r","y">>
N_price == <<"p","r","i","c","e">>
N_unit_price == <<"u","n","i","t","_","p","r","i","c","e">>
N_price_usd == <<"p","r","i","c","e","_","u","s","d">>
N_price_dollar == <<"p","r","i","c","e","_","$">>
N_quantity == <<"q","u","a","n","t","i","t","y">>
N_qty == <<"q","t","y">>
N_amount == <<"a","m","o","u","n","t">>
N_units == <<"u","n","i","t","s">>

\* the candidate lists passed to find_column, in the order of the source
Aliases ==
    [f \in FieldSet |->
       CASE f = "product"  -> <<N_product, N_product_name, N_name>>
         [] f = "category" -> <<N_category, N_cat, N_product_category>>
         [] f = "price"    -> <<N_price, N_unit_price, N_price_usd, N_price_dollar>>
         [] f = "quantity" -> <<N_quantity, N_qty, N_amount, N_units>>]

\* the standard names the rename map renames to
CanonName ==
    [f \in FieldSet |->
       CASE f = "product"  -> N_product
         [] f = "category" -> N_category
         [] f = "price"    -> N_price
         [] f = "quantity" -> N_quantity]

\* Python's None as the result of find_column
None == <<"<None>">>

RECURSIVE FindFrom(_, _, _)
FindFrom(cols, candidates, i) ==
    IF i > Len(candidates) THEN None
    ELSE IF candidates[i] \in Range(cols) THEN candidates[i]
    ELSE FindFrom(cols, candidates, i + 1)

\* find_column: the first candidate that is a column name, or None
FindColumn(cols, candidates) == FindFrom(cols, candidates, 1)

(***************************************************************************)
(* Cells of the in-memory table.  k is the kind of the value: "nan" (a     *)
(* missing value), "num" (the finite number v), "inf" (the infinity of     *)
(* sign v) or "str" (the text s).                                          *)
(***************************************************************************)
NaN == [k |-> "nan", v |-> 0, s |-> <<>>]

Num(n) == [k |-> "num", v |-> n, s |-> <<>>]

Inf(sign) == [k |-> "inf", v |-> sign, s |-> <<>>]

Str(t) == [k |-> "str", v |-> 0, s |-> t]

\* the finite numbers whose numerals the model reads and writes
NumRange == (0 - 8) .. 40

NumeralOf == [n \in NumRange |-> ToString(n)]

\* numeric parsing of a cell text, as pandas.read_csv and pandas.to_numeric
\* do it: a numeral is its number, "inf" and "-inf" are the infinities, and
\* anything else does not parse (NaN).  No input text of the model puts
\* whitespace around a numeral.
ParseNumber(text) ==
    IF Len(text) = 1 /\ \E n \in NumRange : NumeralOf[n] = text[1]
    THEN Num(CHOOSE n \in NumRange : NumeralOf[n] = text[1])
    ELSE IF text = <<"inf">> THEN Inf(1)
    ELSE IF text = <<"-inf">> THEN Inf(0 - 1)
    ELSE NaN

\* the texts pandas.read_csv reads as a missing value (its default na_values)
NaTexts == {<<>>, <<"NA">>, <<"N/A">>, <<"NaN">>, <<"nan">>, <<"NULL">>,
            <<"null">>, <<"None">>, <<"n/a">>, <<"#N/A">>, <<"<NA>">>}

(***************************************************************************)
(* load_data: pandas.read_csv.                                             *)
(***************************************************************************)
\* the name read_csv gives the j-th column (counted from 0) of an empty header
Unnamed(j) == <<"U","n","n","a","m","e","d",":"," ">> \o <<Digits[j + 1]>>

\* read_csv on the header line: an empty name becomes "Unnamed: j" and the
\* n-th repetition of a name gets the suffix ".n"
ReadHeader(header) ==
    [j \in DOMAIN header |->
       LET earlier == Cardinality({i \in 1 .. (j - 1) : header[i] = header[j]})
       IN  IF header[j] = <<>> THEN Unnamed(j - 1)
           ELSE IF earlier > 0 THEN header[j] \o <<".", Digits[earlier + 1]>>
           ELSE header[j]]

\* read_csv infers a numeric column when every cell is missing or a number
ColumnIsNumeric(rows, j) ==
    \A i \in DOMAIN rows : rows[i][j] \in NaTexts \/ ParseNumber(rows[i][j]) # NaN

ReadCell(text, numeric) ==
    IF text \in NaTexts THEN NaN
    ELSE IF numeric THEN ParseNumber(text)
    ELSE Str(text)

\* load_data on a well-formed file: the DataFrame with its default RangeIndex
LoadData(file) ==
    [columns |-> ReadHeader(file.header),
     rows    |-> [i \in DOMAIN file.rows |->
                    [j \in DOMAIN file.header |->
                       ReadCell(file.rows[i][j], ColumnIsNumeric(file.rows, j))]],
     index   |-> [i \in DOMAIN file.rows |-> i - 1]]

(***************************************************************************)
(* DataFrame access.                                                       *)
(***************************************************************************)
\* "name in df.columns"
HasColumn(d, name) == name \in Range(d.columns)

\* the positions of the columns labelled name; df[name] is a Series only
\* when there is exactly one, and a DataFrame when the label is repeated
Positions(d, name) == {j \in DOMAIN d.columns : d.columns[j] = name}

IsSeries(d, name) == Cardinality(Positions(d, name)) = 1

ColumnOf(d, name) ==
    LET j == CHOOSE p \in Positions(d, name) : TRUE
    IN  [i \in DOMAIN d.rows |-> d.rows[i][j]]

\* df[name] = values
SetColumn(d, name, values) ==
    [d EXCEPT !.rows =
       [i \in DOMAIN d.rows |->
          [j \in DOMAIN d.columns |->
             IF d.columns[j] = name THEN values[i] ELSE d.rows[i][j]]]]

(***************************************************************************)
(* Detection and rename (clean_sales_data, lines 107-132).                 *)
(***************************************************************************)
\* product_col, category_col, price_col and quantity_col
DetectColumns(cols) == [f \in FieldSet |-> FindColumn(cols, Aliases[f])]

\* the list "missing": the fields whose detection returned None, in order
MissingFields(fnd) == SelectSeq(Fields, LAMBDA f : fnd[f] = None)

\* df.rename(columns=rename_map): every column labelled with a detected
\* alias gets the standard name of its field, the others keep their name
RenameColumns(cols, fnd) ==
    [j \in DOMAIN cols |->
       IF \E f \in FieldSet : fnd[f] # None /\ fnd[f] = cols[j]
       THEN CanonName[CHOOSE f \in FieldSet : fnd[f] # None /\ fnd[f] = cols[j]]
       ELSE cols[j]]

(***************************************************************************)
(* Text trimming (clean_sales_data, lines 137-139).                        *)
(***************************************************************************)
\* Series.astype(str) on one cell
AsStr(c) ==
    CASE c.k = "str" -> c.s
      [] c.k = "nan" -> <<"nan">>
      [] c.k = "num" -> <<NumeralOf[c.v]>>
      [] c.k = "inf" -> IF c.v > 0 THEN <<"inf">> ELSE <<"-inf">>

\* .str.replace(r"\s+", " ", regex=True).str.strip() on one text
SanitizeText(t) == Strip(SubWhitespaceRuns(t, " "))

\* one turn of the loop: df[col] is a DataFrame without .str when the label
\* is repeated, and the statement raises AttributeError
TrimColumn(r, name) ==
    IF r.err # "" \/ ~HasColumn(r.d, name) THEN r
    ELSE IF ~IsSeries(r.d, name) THEN [r EXCEPT !.err = "AttributeError"]
    ELSE [r EXCEPT !.d =
            SetColumn(r.d, name,
                      [i \in DOMAIN r.d.rows |->
                         Str(SanitizeText(AsStr(ColumnOf(r.d, name)[i])))])]

TrimText(d) ==
    TrimColumn(TrimColumn([err |-> "", d |-> d], N_product), N_category)

(***************************************************************************)
(* handle_missing_values.                                                  *)
(***************************************************************************)
\* pd.to_numeric(errors="coerce") on one cell
ToNumeric(c) == IF c.k = "str" THEN ParseNumber(c.s) ELSE c

RECURSIVE InsertSorted(_, _)
InsertSorted(x, s) ==
    IF s = <<>> THEN <<x>>
    ELSE IF x <= Head(s) THEN <<x>> \o s
    ELSE <<Head(s)>> \o InsertSorted(x, Tail(s))

RECURSIVE SortValues(_)
SortValues(s) == IF s = <<>> THEN <<>> ELSE InsertSorted(Head(s), SortValues(Tail(s)))

\* the finite numbers of a column: what .replace([inf, -inf], nan) leaves
\* for a median that skips NaN
FiniteValues(col) ==
    LET fin == SelectSeq(col, LAMBDA c : c.k = "num")
    IN  [i \in DOMAIN fin |-> fin[i].v]

\* Series.median(skipna=True): NaN for no value, the middle value, or the
\* midpoint of the two middle values
Median(values) ==
    LET n == Len(values)
        sorted == SortValues(values)
    IN  IF n = 0 THEN NaN
        ELSE IF n % 2 = 1 THEN Num(sorted[(n + 1) \div 2])
        ELSE Num((sorted[n \div 2] + sorted[n \div 2 + 1]) \div 2)

\* median_price, with the 0.0 of lines 63-64
MedianPrice(col) ==
    LET m == Median(FiniteValues(col))
    IN  IF m.k = "nan" THEN Num(0) ELSE m

\* Series.fillna(value): only NaN cells are replaced
FillNa(col, value) == [i \in DOMAIN col |-> IF col[i].k = "nan" THEN value ELSE col[i]]

\* lines 60-65; pd.to_numeric raises TypeError on the DataFrame that
\* df["price"] is when the label is repeated
RepairPrice(r) ==
    IF r.err # "" \/ ~HasColumn(r.d, N_price) THEN r
    ELSE IF ~IsSeries(r.d, N_price) THEN [r EXCEPT !.err = "TypeError"]
    ELSE LET numeric == [i \in DOMAIN r.d.rows |-> ToNumeric(ColumnOf(r.d, N_price)[i])]
         IN  [r EXCEPT !.d = SetColumn(r.d, N_price, FillNa(numeric, MedianPrice(numeric)))]

\* lines 67-69
RepairQuantity(r) ==
    IF r.err # "" \/ ~HasColumn(r.d, N_quantity) THEN r
    ELSE IF ~IsSeries(r.d, N_quantity) THEN [r EXCEPT !.err = "TypeError"]
    ELSE LET numeric == [i \in DOMAIN r.d.rows |-> ToNumeric(ColumnOf(r.d, N_quantity)[i])]
         IN  [r EXCEPT !.d = SetColumn(r.d, N_quantity, FillNa(numeric, Num(0)))]

HandleMissingValues(d) == RepairQuantity(RepairPrice([err |-> "", d |-> d]))

(***************************************************************************)
(* remove_invalid_rows and reset_index.                                    *)
(***************************************************************************)
\* a faulty variant of the comparison below: "cell > 0"
StrictlyPositive(c) ==
    CASE c.k = "num" -> c.v > 0
      [] c.k = "inf" -> c.v > 0
      [] OTHER -> FALSE

\* the comparison "cell >= 0" of a numeric cell; it is False for NaN
NonNegative(c) ==
    CASE c.k = "num" -> c.v >= 0
      [] c.k = "inf" -> c.v > 0
      [] OTHER -> FALSE

\* df[df[name] >= 0]: the rows whose cell is non-negative, in their order
SelectNonNegative(d, name) ==
    LET keep == [i \in DOMAIN d.rows |-> NonNegative(ColumnOf(d, name)[i])]
    IN  [d EXCEPT !.rows = FilterIdx(d.rows, keep, 1),
                  !.index = FilterIdx(d.index, keep, 1)]

\* a line printed on the console
Message(kind, n, fields) == [kind |-> kind, n |-> n, fields |-> fields]

\* a faulty variant of the report below, which prints without "if removed"
ReportAlways(out, kind, removed) == Append(out, Message(kind, removed, <<>>))

\* "if removed: print(...)"
Report(out, kind, removed) ==
    IF removed # 0 THEN Append(out, Message(kind, removed, <<>>)) ELSE out

\* one of the two blocks of remove_invalid_rows, on the frame and the console
FilterBlock(r, name, kind) ==
    IF ~HasColumn(r.d, name) THEN r
    ELSE LET before == Len(r.d.rows)
             kept == SelectNonNegative(r.d, name)
         IN  [d |-> kept, out |-> Report(r.out, kind, before - Len(kept.rows))]

RemoveInvalidRows(d, out) ==
    FilterBlock(FilterBlock([d |-> d, out |-> out], N_price, "negative_price"),
                N_quantity, "negative_quantity")

\* df.reset_index(drop=True)
ResetIndex(d) == [d EXCEPT !.index = [i \in DOMAIN d.rows |-> i - 1]]

(***************************************************************************)
(* df.to_csv(out_path, index=False).                                       *)
(***************************************************************************)
\* the text of one cell: a missing value is written as the empty text
CellText(c) ==
    CASE c.k = "str" -> c.s
      [] c.k = "nan" -> <<>>
      [] c.k = "num" -> <<NumeralOf[c.v]>>
      [] c.k = "inf" -> IF c.v > 0 THEN <<"inf">> ELSE <<"-inf">>

ToCsv(d) ==
    [state  |-> "ok",
     header |-> d.columns,
     rows   |-> [i \in DOMAIN d.rows |-> [j \in DOMAIN d.columns |-> CellText(d.rows[i][j])]]]

(***************************************************************************)
(* Files and the input tables the model explores.                          *)
(***************************************************************************)
AbsentFile == [state |-> "absent", header |-> <<>>, rows |-> <<>>]

\* a file that is not well-formed delimited text
MalformedFile == [state |-> "malformed", header |-> <<>>, rows |-> <<>>]

\* a file some of whose bytes were written before the write failed
PartialFile == [state |-> "partial", header |-> <<>>, rows |-> <<>>]

CsvFile(header, rows) == [state |-> "ok", header |-> header, rows |-> rows]

H_ProductName == <<"P","r","o","d","u","c","t"," ","N","a","m","e">>
H_Name == <<"N","a","m","e">>
H_NameSpace == <<" ","n","a","m","e">>
H_Category == <<"C","a","t","e","g","o","r","y">>
H_Cat == <<"c","a","t">>
H_UnitPrice == <<"U","n","i","t"," ","P","r","i","c","e">>
H_Price == <<"P","r","i","c","e">>
H_PriceSpace == <<"p","r","i","c","e"," ">>
H_PriceDollar == <<"P","r","i","c","e"," ","$">>
H_Qty == <<"Q","t","y">>
H_Units == <<"u","n","i","t","s">>
H_SKU == <<"S","K","U">>

RawHeaders == {H_ProductName, H_Name, H_NameSpace, H_Category, H_Cat, H_UnitPrice, H_Price,
               H_PriceSpace, H_PriceDollar, H_Qty, H_Units, H_SKU}

NumericAliases == Range(Aliases["price"]) \cup Range(Aliases["quantity"])

\* the one cell the header tables put under a raw header
DefaultText(h) ==
    IF NormalizeName(h) \in NumericAliases THEN <<"10">> ELSE <<" ", "Widget", " ">>

\* tables of one row under every header list of at most MaxCols raw headers
HeaderFiles ==
    {CsvFile(hs, << [j \in DOMAIN hs |-> DefaultText(hs[j])] >>) :
       hs \in {h \in SeqsUpTo(RawHeaders, MaxCols) : h # <<>>}}

PriceTexts == {<<>>, <<"bad">>, <<"inf">>, <<"-4">>, <<"10">>, <<"20">>}

\* tables of one price column of at most MaxPriceRows cells
PriceFiles ==
    {CsvFile(<<H_Price>>, [i \in DOMAIN col |-> <<col[i]>>]) :
       col \in SeqsUpTo(PriceTexts, MaxPriceRows)}

FilterPriceTexts == {<<"-4">>, <<"10">>, <<>>, <<"-inf">>}

FilterQuantityTexts == {<<"-2">>, <<"6">>, <<"x">>}

\* tables of a price and a quantity column of at most MaxRows rows
FilterFiles ==
    {CsvFile(<<H_UnitPrice, H_Qty>>, rows) :
       rows \in SeqsUpTo({<<p, q>> : p \in FilterPriceTexts, q \in FilterQuantityTexts},
                         MaxRows)}

ProductTexts == {<<>>, <<" ">>, <<" ", "NA", " ">>, <<" ", "Widget", " ", " ", "X">>}

\* tables of one product column of at most MaxRows cells
TextFiles ==
    {CsvFile(<<H_ProductName>>, [i \in DOMAIN col |-> <<col[i]>>]) :
       col \in SeqsUpTo(ProductTexts, MaxRows)}

\* the four-column table of three rows: a clean row, a negative price, and
\* a row with a missing price and an unparseable quantity
ScenarioFile ==
    CsvFile(<<H_ProductName, H_Category, H_UnitPrice, H_Qty>>,
            << <<<<" ", "Widget", " ">>, <<"Tools">>, <<"20">>, <<"4">>>>,
               <<<<"Gadget">>, <<" ", "Tools", " ">>, <<"-4">>, <<"2">>>>,
               <<<<"Gizmo">>, <<"Tools">>, <<>>, <<"bad">>>> >>)

InputFiles ==
    HeaderFiles \cup PriceFiles \cup FilterFiles \cup TextFiles
    \cup {ScenarioFile, AbsentFile, MalformedFile}

(***************************************************************************)
(* The run: main and the steps of clean_sales_data.                        *)
(***************************************************************************)
EmptyFrame == [columns |-> <<>>, rows |-> <<>>, index |-> <<>>]

NothingFound == [f \in FieldSet |-> None]

\* the values of the run kept for the statements about it: the column names
\* after normalisation, the frame as loaded and the frame after repair
EmptyHist == [normalized |-> <<>>, loaded |-> EmptyFrame, repaired |-> EmptyFrame]

\* a faulty variant of the order below, with the row filter before the repair
StageAfterFilterFirst(p) ==
    CASE p = "main" -> "load_data"
      [] p = "load_data" -> "clean_column_names"
      [] p = "clean_column_names" -> "detect_columns"
      [] p = "detect_columns" -> "trim_text"
      [] p = "trim_text" -> "remove_invalid_rows"
      [] p = "remove_invalid_rows" -> "handle_missing_values"
      [] p = "handle_missing_values" -> "to_csv"
      [] p = "to_csv" -> "done"

\* the statement that follows each step, in the order of the source
StageAfter(p) ==
    CASE p = "main" -> "load_data"
      [] p = "load_data" -> "clean_column_names"
      [] p = "clean_column_names" -> "detect_columns"
      [] p = "detect_columns" -> "trim_text"
      [] p = "trim_text" -> "handle_missing_values"
      [] p = "handle_missing_values" -> "remove_invalid_rows"
      [] p = "remove_invalid_rows" -> "to_csv"
      [] p = "to_csv" -> "done"

Init ==
    /\ pc = "main"
    /\ \E file \in InputFiles : fs = [src |-> file, outDir |-> FALSE, out |-> AbsentFile]
    /\ df = EmptyFrame
    /\ found = NothingFound
    /\ console = <<>>
    /\ failure = ""
    /\ stages = <<>>
    /\ run = 1
    /\ hist = EmptyHist

\* an exception leaves the run through every frame: the process ends
Raise(kind) ==
    /\ pc' = "failed"
    /\ failure' = kind

\* main: the check of src_path.exists() before clean_sales_data is called
Main ==
    /\ pc = "main"
    /\ IF fs.src.state = "absent"
       THEN Raise("FileNotFoundError")
       ELSE pc' = StageAfter("main") /\ failure' = failure
    /\ UNCHANGED <<fs, df, found, console, stages, run, hist>>

\* df = load_data(str(src_path))
LoadDataStep ==
    /\ pc = "load_data"
    /\ stages' = Append(stages, "load_data")
    /\ IF fs.src.state = "absent"
       THEN Raise("FileNotFoundError") /\ UNCHANGED <<df, hist>>
       ELSE IF fs.src.state # "ok"
       THEN Raise("ParserError") /\ UNCHANGED <<df, hist>>
       ELSE /\ df' = LoadData(fs.src)
            /\ hist' = [hist EXCEPT !.loaded = df']
            /\ pc' = StageAfter("load_data")
            /\ failure' = failure
    /\ UNCHANGED <<fs, found, console, run>>

\* df = clean_column_names(df)
CleanColumnNamesStep ==
    /\ pc = "clean_column_names"
    /\ stages' = Append(stages, "clean_column_names")
    /\ df' = [df EXCEPT !.columns = StandardizeColumnNames(df.columns)]
    /\ hist' = [hist EXCEPT !.normalized = df'.columns]
    /\ pc' = StageAfter("clean_column_names")
    /\ UNCHANGED <<fs, found, console, failure, run>>

\* lines 107-132: detection, the warning and the rename
DetectColumnsStep ==
    /\ pc = "detect_columns"
    /\ stages' = Append(stages, "detect_columns")
    /\ found' = DetectColumns(df.columns)
    /\ console' = IF MissingFields(found') # <<>>
                  THEN Append(console, Message("warning", 0, MissingFields(found')))
                  ELSE console
    /\ df' = [df EXCEPT !.columns = RenameColumns(df.columns, found')]
    /\ pc' = StageAfter("detect_columns")
    /\ UNCHANGED <<fs, failure, run, hist>>

\* lines 137-139
TrimTextStep ==
    /\ pc = "trim_text"
    /\ stages' = Append(stages, "trim_text")
    /\ LET r == TrimText(df)
       IN  IF r.err # ""
           THEN Raise(r.err) /\ UNCHANGED df
           ELSE df' = r.d /\ pc' = StageAfter("trim_text") /\ failure' = failure
    /\ UNCHANGED <<fs, found, console, run, hist>>

\* df = handle_missing_values(df)
HandleMissingValuesStep ==
    /\ pc = "handle_missing_values"
    /\ stages' = Append(stages, "handle_missing_values")
    /\ LET r == HandleMissingValues(df)
       IN  IF r.err # ""
           THEN Raise(r.err) /\ UNCHANGED <<df, hist>>
           ELSE /\ df' = r.d
                /\ hist' = [hist EXCEPT !.repaired = r.d]
                /\ pc' = StageAfter("handle_missing_values")
                /\ failure' = failure
    /\ UNCHANGED <<fs, found, console, run>>

\* df = remove_invalid_rows(df); df = df.reset_index(drop=True)
RemoveInvalidRowsStep ==
    /\ pc = "remove_invalid_rows"
    /\ stages' = Append(stages, "remove_invalid_rows")
    /\ LET r == RemoveInvalidRows(df, console)
       IN  df' = ResetIndex(r.d) /\ console' = r.out
    /\ pc' = StageAfter("remove_invalid_rows")
    /\ UNCHANGED <<fs, found, failure, run, hist>>

\* lines 149-153: mkdir of the parent, to_csv and the summary line; either
\* of the two file-system calls may fail with OSError
SaveStep ==
    /\ pc = "to_csv"
    /\ stages' = Append(stages, "to_csv")
    /\ \E outcome \in {"ok", "mkdir fails", "write fails"} :
         CASE outcome = "ok" ->
                /\ fs' = [fs EXCEPT !.outDir = TRUE, !.out = ToCsv(df)]
                /\ console' = Append(console, Message("summary", Len(df.rows), <<>>))
                /\ pc' = StageAfter("to_csv")
                /\ failure' = failure
           [] outcome = "mkdir fails" ->
                Raise("OSError") /\ UNCHANGED <<fs, console>>
           [] outcome = "write fails" ->
                /\ Raise("OSError")
                /\ fs' = [fs EXCEPT !.outDir = TRUE, !.out = PartialFile]
                /\ UNCHANGED console
    /\ UNCHANGED <<df, found, run, hist>>

\* the operator runs the program again on the file it wrote
FeedBack ==
    /\ pc = "done"
    /\ run < MaxRuns
    /\ run' = run + 1
    /\ fs' = [fs EXCEPT !.src = fs.out]
    /\ pc' = "main"
    /\ df' = EmptyFrame
    /\ found' = NothingFound
    /\ console' = <<>>
    /\ failure' = ""
    /\ stages' = <<>>
    /\ hist' = EmptyHist

Next ==
    \/ Main
    \/ LoadDataStep
    \/ CleanColumnNamesStep
    \/ DetectColumnsStep
    \/ TrimTextStep
    \/ HandleMissingValuesStep
    \/ RemoveInvalidRowsStep
    \/ SaveStep
    \/ FeedBack

Spec == Init /\ [][Next]_vars

(***************************************************************************)
(* Vocabulary of the properties.                                           *)
(***************************************************************************)
\* the step has run to its end in this run
Completed(stage) ==
    \E i \in DOMAIN stages : stages[i] = stage /\ (i < Len(stages) \/ pc # "failed")

IsPrefix(s, t) == Len(s) <= Len(t) /\ \A i \in DOMAIN s : s[i] = t[i]

\* the order of the stages: Loader, Schema Normalizer (normalisation, then
\* detection and rename), Text Sanitizer, Numeric Repair, Row Filter, Writer
StageOrder ==
    <<"load_data", "clean_column_names", "detect_columns", "trim_text",
      "handle_missing_values", "remove_invalid_rows", "to_csv">>

IsFinite(c) == c.k = "num"

AtLeastZero(c) == (c.k = "num" /\ c.v >= 0) \/ (c.k = "inf" /\ c.v = 1)

BelowZero(c) == (c.k = "num" /\ c.v < 0) \/ (c.k = "inf" /\ c.v = 0 - 1)

\* the positions of the columns of the frame d that carry the name
At(d, name) == {j \in DOMAIN d.columns : d.columns[j] = name}

\* the row has no negative cell under a column called name
RowAtLeastZero(d, row, name) == \A j \in At(d, name) : AtLeastZero(row[j])

RowBelowZero(d, row, name) == \E j \in At(d, name) : BelowZero(row[j])

\* the k-th smallest of the values, by counting
KthSmallest(values, k) ==
    CHOOSE x \in Range(values) :
      /\ Cardinality({i \in DOMAIN values : values[i] < x}) < k
      /\ Cardinality({i \in DOMAIN values : values[i] <= x}) >= k

\* twice the median of a non-empty sequence of values
TwiceMedian(values) ==
    LET n == Len(values)
    IN  IF n % 2 = 1 THEN 2 * KthSmallest(values, (n + 1) \div 2)
        ELSE KthSmallest(values, n \div 2) + KthSmallest(values, n \div 2 + 1)

\* the price column as loaded and parsed, before any fill: cell i of the
\* column that is called price after the rename
ParsedPrice(i) ==
    LET j == CHOOSE p \in At(df, N_price) : TRUE
        c == hist.loaded.rows[i][j]
    IN  IF c.k = "str" THEN ParseNumber(c.s) ELSE c

(***************************************************************************)
(* C1.  After Numeric Repair, if the price column exists, every price cell *)
(* is a non-missing finite number, whatever the input cells were           *)
(* (unparseable text, null, or an explicit infinity).                      *)
(***************************************************************************)
C1_PriceFiniteAfterRepair ==
    pc = "remove_invalid_rows" =>
      \A j \in At(df, N_price) : \A i \in DOMAIN df.rows : IsFinite(df.rows[i][j])

(***************************************************************************)
(* C2.  The price fill value is the median of the cells of the original    *)
(* price column that parse as numbers (0 when none does); every missing or *)
(* unparseable cell is replaced by it and every parseable cell keeps its   *)
(* value and position.  A cell parses as a number when it is a finite      *)
(* number: an explicit infinity fails to parse.                            *)
(***************************************************************************)
C2_MedianFill ==
    (pc = "remove_invalid_rows" /\ At(df, N_price) # {}) =>
      LET j == CHOOSE p \in At(df, N_price) : TRUE
          valid == SelectSeq([i \in DOMAIN df.rows |-> ParsedPrice(i)], IsFinite)
          values == [i \in DOMAIN valid |-> valid[i].v]
      IN  \A i \in DOMAIN df.rows :
            /\ df.rows[i][j].k = "num"
            /\ IF IsFinite(ParsedPrice(i))
               THEN df.rows[i][j].v = ParsedPrice(i).v
               ELSE IF values = <<>> THEN df.rows[i][j].v = 0
               ELSE 2 * df.rows[i][j].v = TwiceMedian(values)

(***************************************************************************)
(* C3.  After the Row Filter the surviving rows are exactly the rows of    *)
(* the repaired table whose price (if the column exists) is >= 0 and whose *)
(* quantity (if the column exists) is >= 0, in their relative order.       *)
(***************************************************************************)
C3_FilterKeepsExactlyValidRows ==
    pc = "to_csv" =>
      df.rows = SelectSeq(hist.repaired.rows,
                          LAMBDA row : /\ RowAtLeastZero(hist.repaired, row, N_price)
                                       /\ RowAtLeastZero(hist.repaired, row, N_quantity))

\* the filter has dropped a row and kept two rows of a table with both columns
C3_Witness ==
    /\ pc = "to_csv"
    /\ At(df, N_price) # {} /\ At(df, N_quantity) # {}
    /\ Len(df.rows) >= 2
    /\ Len(df.rows) < Len(hist.repaired.rows)

(***************************************************************************)
(* C4.  Each field is bound to the first alias of its list present among   *)
(* the normalized names (absent if none is); only that one column is       *)
(* renamed to the canonical name; every other column keeps its normalized  *)
(* name, and its cells are unchanged by the text and numeric stages.       *)
(***************************************************************************)
C4_AliasPriority ==
    Completed("detect_columns") =>
      /\ \A f \in FieldSet :
           LET present == {a \in DOMAIN Aliases[f] : Aliases[f][a] \in Range(hist.normalized)}
               renamed == {j \in DOMAIN df.columns :
                             df.columns[j] = CanonName[f]
                             /\ hist.normalized[j] \in Range(Aliases[f])}
           IN  IF present = {}
               THEN found[f] = None /\ renamed = {}
               ELSE /\ found[f] = Aliases[f][CHOOSE a \in present : \A b \in present : a <= b]
                    /\ Cardinality(renamed) = 1
                    /\ \A j \in renamed : hist.normalized[j] = found[f]
      /\ \A j \in DOMAIN df.columns :
           (\A f \in FieldSet : hist.normalized[j] # found[f]) =>
             /\ df.columns[j] = hist.normalized[j]
             /\ pc = "remove_invalid_rows" =>
                  \A i \in DOMAIN df.rows : df.rows[i][j] = hist.loaded.rows[i][j]

(***************************************************************************)
(* C5.  Round trip: a run on the table written by the previous run removes *)
(* no row and changes no cell value.                                       *)
(***************************************************************************)
C5_RoundTripFixedPoint ==
    (run >= 2 /\ pc = "done") => fs.out.rows = fs.src.rows

(***************************************************************************)
(* C6.  After normalisation, detection and rename, at most one column is   *)
(* named product, at most one category, at most one price and at most one  *)
(* quantity, for every header list.                                        *)
(***************************************************************************)
C6_AtMostOneCanonicalColumn ==
    Completed("detect_columns") =>
      \A f \in FieldSet : Cardinality(At(df, CanonName[f])) <= 1

(***************************************************************************)
(* C7.  A missing canonical field is a soft condition: whatever fields     *)
(* have no alias among the normalized names, a run that has loaded its     *)
(* table goes on through the Writer; the warning lists exactly the         *)
(* undetected fields, and there is none when all four are detected; the    *)
(* written table has no column with the canonical name of an undetected    *)
(* field.                                                                  *)
(***************************************************************************)
C7_MissingFieldIsSoft ==
    LET undetected == {f \in FieldSet :
                         \A a \in DOMAIN Aliases[f] : Aliases[f][a] \notin Range(hist.normalized)}
        warnings == SelectSeq(console, LAMBDA m : m.kind = "warning")
    IN  /\ (pc = "failed" /\ Completed("load_data")) => "to_csv" \in Range(stages)
        /\ Completed("detect_columns") =>
             /\ undetected = {} => warnings = <<>>
             /\ undetected # {} =>
                  /\ Len(warnings) = 1
                  /\ Range(warnings[1].fields) = undetected
        /\ pc = "done" =>
             \A f \in undetected : CanonName[f] \notin Range(fs.out.header)

(***************************************************************************)
(* C8.  The stages of a run execute at most once each and in the order     *)
(* Loader, Schema Normalizer, Text Sanitizer, Numeric Repair, Row Filter,  *)
(* Writer; a run whose source file is absent aborts with FileNotFound      *)
(* before any stage executes, and a run whose load failed never creates    *)
(* the destination directory nor writes the output file.                   *)
(***************************************************************************)
C8_StagesInOrderAndNoWriteAfterFailedLoad ==
    /\ IsPrefix(stages, StageOrder)
    /\ fs.src.state = "absent" =>
         /\ pc \in {"main", "failed"}
         /\ pc = "failed" => failure = "FileNotFoundError" /\ stages = <<>>
    /\ (pc = "failed" /\ ~Completed("load_data")) =>
         /\ "to_csv" \notin Range(stages)
         /\ ~fs.outDir
         /\ fs.out = AbsentFile

\* the run on an absent source file has aborted
C8_Witness ==
    pc = "failed" /\ failure = "FileNotFoundError" /\ fs.src.state = "absent"

\* the rows of the repaired table that the price filter removes, and those
\* that pass it and are removed by the quantity filter
C9_NegativePriceRows ==
    {i \in DOMAIN hist.repaired.rows :
       RowBelowZero(hist.repaired, hist.repaired.rows[i], N_price)}

C9_NegativeQuantityRows ==
    {i \in DOMAIN hist.repaired.rows :
       /\ ~RowBelowZero(hist.repaired, hist.repaired.rows[i], N_price)
       /\ RowBelowZero(hist.repaired, hist.repaired.rows[i], N_quantity)}

(***************************************************************************)
(* C9.  The counts reported by the Row Filter: the negative-price count is *)
(* the number of rows with price < 0, the negative-quantity count the      *)
(* number of rows with price >= 0 and quantity < 0; they add up to the     *)
(* number of rows removed; a message is printed for a reason if and only   *)
(* if its count is greater than 0.                                         *)
(***************************************************************************)
C9_RemovalCounts ==
    pc = "to_csv" =>
      LET np == Cardinality(C9_NegativePriceRows)
          nq == Cardinality(C9_NegativeQuantityRows)
          reports == SelectSeq(console, LAMBDA m : m.kind # "warning")
      IN  /\ np + nq = Len(hist.repaired.rows) - Len(df.rows)
          /\ reports = (IF np > 0 THEN <<Message("negative_price", np, <<>>)>> ELSE <<>>)
                       \o (IF nq > 0 THEN <<Message("negative_quantity", nq, <<>>)>> ELSE <<>>)

\* both filters have removed a row, one of them negative in both columns
C9_Witness ==
    /\ pc = "to_csv"
    /\ C9_NegativeQuantityRows # {}
    /\ \E i \in C9_NegativePriceRows :
         RowBelowZero(hist.repaired, hist.repaired.rows[i], N_quantity)

(***************************************************************************)
(* C10.  A normalized column name holds only lowercase letters, digits and *)
(* underscores, so none equals the alias price_$: the price field is never *)
(* bound through it, and the header "Price $" normalizes to "price_" and   *)
(* is left undetected unless another price alias is present.               *)
(***************************************************************************)
C10_DollarAliasNeverMatches ==
    LET otherPriceAlias ==
          \E j \in DOMAIN hist.normalized :
             hist.normalized[j] \in {N_price, N_unit_price, N_price_usd}
    IN  /\ found["price"] # N_price_dollar
        /\ Completed("clean_column_names") =>
             \A j \in DOMAIN hist.normalized :
               /\ Range(hist.normalized[j])
                    \subseteq (Range(LowerChars) \cup Range(Digits) \cup {"_"})
               /\ hist.normalized[j] # N_price_dollar
               /\ hist.loaded.columns[j] = H_PriceDollar =>
                    hist.normalized[j] = <<"p","r","i","c","e","_">>
        /\ (Completed("detect_columns") /\ ~otherPriceAlias) =>
             /\ found["price"] = None
             /\ At(df, N_price) = {}

\* a table with the header "Price $" and no other price alias is past detection
C10_Witness ==
    /\ Completed("detect_columns")
    /\ H_PriceDollar \in Range(hist.loaded.columns)
    /\ found["price"] = None

====
